---- MODULE Spec2Model ----
(***************************************************************************)
(* Admin dashboard: the technician-assignment workflow of the booking      *)
(* detail page (BookingDetailPage) and the role-gated session guard        *)
(* (DashboardLayout), modelled as state machines over the React state of   *)
(* each component, the documents of the backing store and the asynchronous *)
(* calls in flight.                                                        *)
(*                                                                         *)
(* One step of the model is one run of JavaScript to the next await: an    *)
(* event handler up to its first await, or the continuation of a resolved  *)
(* promise up to the next await or the end of the handler.  React commits  *)
(* the batched state updates of such a run before the next event is        *)
(* dispatched, so every handler reads the state of the latest render.      *)
(***************************************************************************)
EXTENDS Integers, FiniteSets, Sequences, TLC

(***************************************************************************)
(* Bounds                                                                  *)
(***************************************************************************)
MaxAttempts == 2
MaxNotifications == 3

(***************************************************************************)
(* Values                                                                  *)
(***************************************************************************)
Techs == {"t1", "t2"}
NoTechId == "null"
EmptySelection == ""

TechName(t) == IF t = "t1" THEN "Rajesh Kumar" ELSE "Priya Sharma"

Statuses == {"pending", "assigned", "completed", "cancelled"}

\* booking === null in the page state; a bookings/{id} document that does
\* not exist in the store
NoBooking ==
  [technicianId |-> NoTechId, status |-> "null", customerName |-> "null"]

\* technician === null
NoTechnician == [name |-> "null", active |-> FALSE]

\* assignmentMessage === null
NoMessage == [type |-> "null", text |-> "null"]

\* error === null
NoError == "null"

\* the bookings/{id} documents the page can be opened on
InitBookings ==
  { [technicianId |-> NoTechId, status |-> "pending", customerName |-> "Asha"],
    [technicianId |-> NoTechId, status |-> "cancelled", customerName |-> "Asha"],
    [technicianId |-> "t1", status |-> "assigned", customerName |-> "Asha"],
    [technicianId |-> "t2", status |-> "completed", customerName |-> "Asha"],
    NoBooking }

\* the fault codes a rejected backend call can carry
FaultCodes == {"permission-denied", "unavailable", "other", "none"}

VARIABLES
  \* document store
  stBooking,             \* bookings/{bookingId}
  stTech,                \* technicians/{id}
  stServiceExists,       \* services/{booking.serviceId} exists
  \* BookingDetailPage state
  booking,
  service,
  technician,
  activeTechnicians,
  selectedTechnicianId,
  loading,
  error,
  isAssigning,
  assignmentMessage,
  showConfirmDialog,
  \* asynchronous work of BookingDetailPage
  pcFetch,               \* the await fetchBookingDetails is suspended at
  inFlight,              \* the suspended handleAssign calls
  timers,                \* the pending setTimeout callbacks, by attempt
  writesIssued,          \* number of updateDoc calls on the booking
  \* DashboardLayout state
  layoutLoading,
  isAuthorized,
  authChecked,
  isMounted,
  \* identity provider and the asynchronous work of DashboardLayout
  session,               \* the current session (the latest notification)
  fired,                 \* the subscription has delivered its first call
  pending,               \* the callbacks suspended at getDoc(users/{uid})
  notifCount,            \* number of notifications delivered
  redirected,            \* router.push("/login") has been called
  \* the last step taken
  lastEvent

VARIABLES
  \* LoginPage state and the await handleSubmit is suspended at
  loginPage,
  \* the services and bookings collections read by the list pages
  stServices,
  stBookings,
  \* BookingsPage, Dashboard and ServicesPage state
  bookingsPage,
  dashboard,
  servicesPage,
  \* TechniciansPage state and its suspended calls
  techniciansPage,
  techCalls,
  \* the run of a bootstrap script
  scriptRun,
  \* a second administrator's booking detail page on the same booking
  peer,
  \* the suspended handleToggleStatus calls of ServicesPage
  svcCalls

storeVars == <<stBooking, stTech, stServiceExists>>
pageVars == <<booking, service, technician, activeTechnicians,
              selectedTechnicianId, loading, error, isAssigning,
              assignmentMessage, showConfirmDialog>>
asyncVars == <<pcFetch, inFlight, timers, writesIssued>>
layoutVars == <<layoutLoading, isAuthorized, authChecked, isMounted>>
authVars == <<session, fired, pending, notifCount, redirected>>
loginVars == <<loginPage>>
listVars == <<stServices, stBookings, bookingsPage, dashboard, servicesPage>>
techPageVars == <<techniciansPage, techCalls>>
scriptVars == <<scriptRun>>
otherVars == <<peer, svcCalls>>
auxVars == <<loginVars, listVars, techPageVars, scriptVars, otherVars>>
vars == <<storeVars, pageVars, asyncVars, layoutVars, authVars, auxVars,
          lastEvent>>

\* an event of the model: the operation and what it was applied to
Event(op, arg) == [op |-> op, arg |-> arg]

(***************************************************************************)
(* BookingDetailPage: fetchBookingDetails                                  *)
(***************************************************************************)

\* the rows of the active-technicians query: where("active", "==", true)
ActiveTechniciansQuery(techs) ==
  { [id |-> t, name |-> techs[t].name] : t \in {u \in Techs : techs[u].active} }

\* catch and finally of fetchBookingDetails
FetchFailed ==
  /\ error' = "Failed to load booking details. Please try again."
  /\ loading' = FALSE
  /\ pcFetch' = "done"

\* await getDoc(doc(db, "bookings", bookingId))
FetchBooking(ok) ==
  /\ pcFetch = "booking"
  /\ lastEvent' = Event("fetchBooking", IF ok THEN "ok" ELSE "fault")
  /\ IF ~ok
       THEN FetchFailed /\ UNCHANGED booking
       ELSE IF stBooking = NoBooking
              THEN /\ error' = "Booking not found"
                   /\ loading' = FALSE
                   /\ pcFetch' = "done"
                   /\ UNCHANGED booking
              ELSE /\ booking' = stBooking
                   /\ pcFetch' = "service"
                   /\ UNCHANGED <<error, loading>>
  /\ UNCHANGED <<service, technician, activeTechnicians, selectedTechnicianId,
                 isAssigning, assignmentMessage, showConfirmDialog>>
  /\ UNCHANGED <<storeVars, inFlight, timers, writesIssued, layoutVars, authVars,
                 auxVars>>

\* await getDoc(doc(db, "services", bookingData.serviceId))
FetchService(ok) ==
  /\ pcFetch = "service"
  /\ lastEvent' = Event("fetchService", IF ok THEN "ok" ELSE "fault")
  /\ IF ~ok
       THEN FetchFailed /\ UNCHANGED service
       ELSE /\ service' = IF stServiceExists THEN "loaded" ELSE service
            /\ pcFetch' = IF booking.technicianId # NoTechId
                            THEN "technician" ELSE "active"
            /\ UNCHANGED <<error, loading>>
  /\ UNCHANGED <<booking, technician, activeTechnicians, selectedTechnicianId,
                 isAssigning, assignmentMessage, showConfirmDialog>>
  /\ UNCHANGED <<storeVars, inFlight, timers, writesIssued, layoutVars, authVars,
                 auxVars>>

\* await getDoc(doc(db, "technicians", bookingData.technicianId))
FetchTechnician(ok) ==
  /\ pcFetch = "technician"
  /\ lastEvent' = Event("fetchTechnician", IF ok THEN "ok" ELSE "fault")
  /\ IF ~ok
       THEN FetchFailed /\ UNCHANGED technician
       ELSE /\ technician' = stTech[booking.technicianId]
            /\ pcFetch' = "active"
            /\ UNCHANGED <<error, loading>>
  /\ UNCHANGED <<booking, service, activeTechnicians, selectedTechnicianId,
                 isAssigning, assignmentMessage, showConfirmDialog>>
  /\ UNCHANGED <<storeVars, inFlight, timers, writesIssued, layoutVars, authVars,
                 auxVars>>

\* await getDocs(activeTechniciansQuery)
FetchActiveTechnicians(ok) ==
  /\ pcFetch = "active"
  /\ lastEvent' = Event("fetchActive", IF ok THEN "ok" ELSE "fault")
  /\ IF ~ok
       THEN FetchFailed /\ UNCHANGED activeTechnicians
       ELSE /\ activeTechnicians' = ActiveTechniciansQuery(stTech)
            /\ loading' = FALSE
            /\ pcFetch' = "done"
            /\ UNCHANGED error
  /\ UNCHANGED <<booking, service, technician, selectedTechnicianId,
                 isAssigning, assignmentMessage, showConfirmDialog>>
  /\ UNCHANGED <<storeVars, inFlight, timers, writesIssued, layoutVars, authVars,
                 auxVars>>

(***************************************************************************)
(* BookingDetailPage: what is rendered                                     *)
(***************************************************************************)

\* neither the loading skeleton nor the error view is returned
DetailRendered == ~loading /\ error = NoError /\ booking # NoBooking

\* {!booking.technicianId && ( ... Assign Technician section ... )}
AssignSectionRendered == DetailRendered /\ booking.technicianId = NoTechId

\* {showConfirmDialog && ( ... Confirmation Dialog ... )}
ConfirmDialogRendered == DetailRendered /\ showConfirmDialog

\* a <select> that offers every technician of the directory
SelectOptions_AllTechnicians == {EmptySelection} \cup Techs

\* the option values of the technician <select>
SelectOptions == {EmptySelection} \cup {t.id : t \in activeTechnicians}

(***************************************************************************)
(* BookingDetailPage: handleAssignClick and handleAssign                   *)
(***************************************************************************)

\* activeTechnicians.find((t) => t.id === id)?.name || ""
FindName(list, id) ==
  IF \E t \in list : t.id = id
    THEN (CHOOSE t \in list : t.id = id).name
    ELSE ""

\* a handleAssignClick that does not test the selection
AssignClickBlocked_AllowsEmptySelection ==
  \/ booking = NoBooking
  \/ booking.technicianId # NoTechId
  \/ isAssigning

\* the early return of handleAssignClick
AssignClickBlocked ==
  \/ selectedTechnicianId = EmptySelection
  \/ booking = NoBooking
  \/ booking.technicianId # NoTechId
  \/ isAssigning

\* a handleAssign that does not test booking.technicianId
AssignBlocked_IgnoresAssigned ==
  \/ selectedTechnicianId = EmptySelection
  \/ booking = NoBooking

\* the early return of handleAssign
AssignBlocked ==
  \/ selectedTechnicianId = EmptySelection
  \/ booking = NoBooking
  \/ booking.technicianId # NoTechId

\* an optimistic update that sets the technician and leaves the status
OptimisticBooking_KeepsStatus(b, sel) == [b EXCEPT !.technicianId = sel]

\* setBooking({...booking, technicianId: selectedTechnicianId, status: "assigned"})
OptimisticBooking(b, sel) ==
  [b EXCEPT !.technicianId = sel, !.status = "assigned"]

\* a rollback that writes status: "pending" instead of booking.status
RevertedBooking_ResetsStatus(b) ==
  [b EXCEPT !.technicianId = NoTechId, !.status = "pending"]

\* setBooking({...booking, technicianId: null, status: booking.status})
RevertedBooking(b) == [b EXCEPT !.technicianId = NoTechId]

\* a write that replaces the document, as setDoc without merge would
UpdatedDocument_Replaces(d, sel) ==
  [technicianId |-> sel, status |-> "assigned", customerName |-> "null"]

\* updateDoc(bookingRef, {technicianId: selectedTechnicianId, status: "assigned"})
UpdatedDocument(d, sel) ==
  [d EXCEPT !.technicianId = sel, !.status = "assigned"]

SuccessMessage(name) == [type |-> "success", text |-> name]

\* the message of the catch block, by error.code and error.message
ErrorMessage(code) ==
  [type |-> "error",
   text |-> CASE code = "permission-denied" -> "Permission denied."
              [] code = "unavailable" -> "Service temporarily unavailable."
              [] code = "other" -> "Error: message"
              [] OTHER -> "Failed to assign technician."]

\* setShowConfirmDialog(true)
OpenConfirmDialog ==
  /\ showConfirmDialog' = TRUE
  /\ UNCHANGED <<booking, service, technician, activeTechnicians,
                 selectedTechnicianId, loading, error, isAssigning,
                 assignmentMessage>>
  /\ UNCHANGED <<storeVars, asyncVars>>

\* handleAssign up to await updateDoc(...)
handleAssign ==
  IF AssignBlocked
    THEN /\ lastEvent' = Event("handleAssign", "return")
         /\ UNCHANGED <<storeVars, pageVars, asyncVars>>
    ELSE /\ writesIssued < MaxAttempts
         /\ lastEvent' = Event("handleAssign", "write")
         /\ isAssigning' = TRUE
         /\ assignmentMessage' = NoMessage
         /\ showConfirmDialog' = FALSE
         /\ booking' = OptimisticBooking(booking, selectedTechnicianId)
         /\ writesIssued' = writesIssued + 1
         /\ inFlight' = inFlight \cup
              { [id |-> writesIssued + 1,
                 pc |-> "updateDoc",
                 booking |-> booking,
                 selectedTechnicianId |-> selectedTechnicianId,
                 name |-> FindName(activeTechnicians, selectedTechnicianId)] }
         /\ UNCHANGED <<service, technician, activeTechnicians,
                        selectedTechnicianId, loading, error>>
         /\ UNCHANGED <<storeVars, pcFetch, timers>>

\* an Assign button wired to handleAssign, with no confirmation dialog
handleAssignClick_SkipsDialog == handleAssign

\* handleAssignClick
handleAssignClick ==
  IF AssignClickBlocked
    THEN /\ lastEvent' = Event("handleAssignClick", "return")
         /\ UNCHANGED <<storeVars, pageVars, asyncVars>>
    ELSE /\ lastEvent' = Event("handleAssignClick", "open")
         /\ OpenConfirmDialog

\* a catch block with no finally: isAssigning is left as it was
AssignCatch_KeepsAssigning(c, code) ==
  /\ booking' = IF c.booking # NoBooking THEN RevertedBooking(c.booking)
                                         ELSE booking
  /\ technician' = NoTechnician
  /\ assignmentMessage' = ErrorMessage(code)
  /\ timers' = timers \cup {c.id}
  /\ inFlight' = inFlight \ {c}
  /\ UNCHANGED <<service, activeTechnicians, selectedTechnicianId, loading,
                 error, showConfirmDialog, isAssigning>>
  /\ UNCHANGED <<stTech, stServiceExists, pcFetch, writesIssued>>

\* catch and finally of handleAssign, for the suspended call c
AssignCatch(c, code) ==
  /\ booking' = IF c.booking # NoBooking THEN RevertedBooking(c.booking)
                                         ELSE booking
  /\ technician' = NoTechnician
  /\ assignmentMessage' = ErrorMessage(code)
  /\ timers' = timers \cup {c.id}
  /\ isAssigning' = FALSE
  /\ inFlight' = inFlight \ {c}
  /\ UNCHANGED <<service, activeTechnicians, selectedTechnicianId, loading,
                 error, showConfirmDialog>>
  /\ UNCHANGED <<stTech, stServiceExists, pcFetch, writesIssued>>

\* await updateDoc(...) settles: the store applies the write and handleAssign
\* goes on to getDoc, or the call rejects and the catch block runs
UpdateDocSettles(c, ok, code) ==
  /\ c \in inFlight
  /\ c.pc = "updateDoc"
  /\ IF ok
       THEN /\ lastEvent' = Event("updateDoc", "ok")
            /\ stBooking' = UpdatedDocument(stBooking, c.selectedTechnicianId)
            /\ inFlight' = (inFlight \ {c}) \cup {[c EXCEPT !.pc = "getDoc"]}
            /\ UNCHANGED <<pageVars, stTech, stServiceExists, pcFetch, timers,
                           writesIssued>>
       ELSE /\ lastEvent' = Event("updateDoc", code)
            /\ AssignCatch(c, code)
            /\ UNCHANGED stBooking
  /\ UNCHANGED <<layoutVars, authVars,
                 auxVars>>

\* await getDoc(doc(db, "technicians", selectedTechnicianId)) settles
GetDocSettles(c, ok, code) ==
  /\ c \in inFlight
  /\ c.pc = "getDoc"
  /\ IF ok
       THEN /\ lastEvent' = Event("getDoc", "ok")
            /\ technician' = stTech[c.selectedTechnicianId]
            /\ selectedTechnicianId' = EmptySelection
            /\ assignmentMessage' = SuccessMessage(c.name)
            /\ timers' = timers \cup {c.id}
            /\ isAssigning' = FALSE
            /\ inFlight' = inFlight \ {c}
            /\ UNCHANGED <<booking, service, activeTechnicians, loading, error,
                           showConfirmDialog>>
            /\ UNCHANGED <<stTech, stServiceExists, pcFetch, writesIssued>>
       ELSE /\ lastEvent' = Event("getDoc", code)
            /\ AssignCatch(c, code)
  /\ UNCHANGED <<stBooking, layoutVars, authVars,
                 auxVars>>

\* setTimeout(() => { setAssignmentMessage(null); }, ...) of attempt a fires
TimerFires(a) ==
  /\ a \in timers
  /\ lastEvent' = Event("timer", "fired")
  /\ assignmentMessage' = NoMessage
  /\ timers' = timers \ {a}
  /\ UNCHANGED <<booking, service, technician, activeTechnicians,
                 selectedTechnicianId, loading, error, isAssigning,
                 showConfirmDialog>>
  /\ UNCHANGED <<storeVars, pcFetch, inFlight, writesIssued, layoutVars, authVars,
                 auxVars>>

(***************************************************************************)
(* BookingDetailPage: the controls                                         *)
(***************************************************************************)

\* onChange={(e) => setSelectedTechnicianId(e.target.value)}
SelectTechnician(v) ==
  /\ AssignSectionRendered
  /\ ~isAssigning
  /\ v \in SelectOptions
  /\ v # selectedTechnicianId
  /\ lastEvent' = Event("select", v)
  /\ selectedTechnicianId' = v
  /\ UNCHANGED <<booking, service, technician, activeTechnicians, loading,
                 error, isAssigning, assignmentMessage, showConfirmDialog>>
  /\ UNCHANGED <<storeVars, asyncVars, layoutVars, authVars,
                 auxVars>>

\* the Assign button: disabled={!selectedTechnicianId || isAssigning}
ClickAssign ==
  /\ AssignSectionRendered
  /\ selectedTechnicianId # EmptySelection
  /\ ~isAssigning
  /\ handleAssignClick
  /\ UNCHANGED <<layoutVars, authVars,
                 auxVars>>

\* the Confirm Assign button of the dialog: disabled={isAssigning}
ClickConfirm ==
  /\ ConfirmDialogRendered
  /\ ~isAssigning
  /\ handleAssign
  /\ UNCHANGED <<layoutVars, authVars,
                 auxVars>>

\* a dismissal that also drops the staged selection
CloseConfirmDialog_ClearsSelection ==
  /\ showConfirmDialog' = FALSE
  /\ selectedTechnicianId' = EmptySelection
  /\ UNCHANGED <<booking, service, technician, activeTechnicians,
                 loading, error, isAssigning, assignmentMessage>>
  /\ UNCHANGED <<storeVars, asyncVars>>

\* setShowConfirmDialog(false)
CloseConfirmDialog ==
  /\ showConfirmDialog' = FALSE
  /\ UNCHANGED <<booking, service, technician, activeTechnicians,
                 selectedTechnicianId, loading, error, isAssigning,
                 assignmentMessage>>
  /\ UNCHANGED <<storeVars, asyncVars>>

\* the Cancel button of the dialog: disabled={isAssigning}
ClickCancel ==
  /\ ConfirmDialogRendered
  /\ ~isAssigning
  /\ lastEvent' = Event("dismiss", "cancel")
  /\ CloseConfirmDialog
  /\ UNCHANGED <<layoutVars, authVars,
                 auxVars>>

\* the backdrop: onClick={() => !isAssigning && setShowConfirmDialog(false)}
ClickBackdrop ==
  /\ ConfirmDialogRendered
  /\ lastEvent' = Event("dismiss", "backdrop")
  /\ IF ~isAssigning
       THEN CloseConfirmDialog
       ELSE UNCHANGED <<storeVars, pageVars, asyncVars>>
  /\ UNCHANGED <<layoutVars, authVars,
                 auxVars>>

\* the handlers called on the state of the current render, whatever the
\* controls that are rendered
CallHandleAssignClick ==
  /\ handleAssignClick
  /\ UNCHANGED <<layoutVars, authVars,
                 auxVars>>

CallHandleAssign ==
  /\ handleAssign
  /\ UNCHANGED <<layoutVars, authVars,
                 auxVars>>

(***************************************************************************)
(* DashboardLayout: the role-gated session guard                           *)
(***************************************************************************)

\* the identities of the identity provider; no session is NoUser
Users == {"admin", "customer", "nodoc"}
NoUser == "null"

\* userDoc.exists() of users/{uid}
UserDocExists(u) == u \in {"admin", "customer"}

\* userDoc.data().role of users/{uid}
UserRole(u) == IF u = "admin" THEN "admin" ELSE "customer"

\* if (loading || !authChecked || !isAuthorized) return <loading screen>
LoadingScreen == layoutLoading \/ ~authChecked \/ ~isAuthorized

\* {children} is rendered by the mounted layout
ChildrenRendered == isMounted /\ ~LoadingScreen

\* setAuthChecked(true); setLoading(false); router.push("/login")
RedirectToLogin ==
  /\ authChecked' = TRUE
  /\ layoutLoading' = FALSE
  /\ redirected' = TRUE
  /\ UNCHANGED isAuthorized

\* setIsAuthorized(true); setAuthChecked(true); setLoading(false)
Authorize ==
  /\ isAuthorized' = TRUE
  /\ authChecked' = TRUE
  /\ layoutLoading' = FALSE
  /\ UNCHANGED redirected

\* the identity provider changes the session to u and notifies the
\* subscriber: the callback of onAuthStateChanged up to await getDoc(...).
\* The first call of a subscription carries the current session.
AuthStateChanged(u) ==
  /\ notifCount < MaxNotifications
  /\ IF fired THEN u # session ELSE u = session
  /\ session' = u
  /\ notifCount' = notifCount + 1
  /\ lastEvent' = Event("authStateChanged", u)
  /\ IF ~isMounted
       THEN UNCHANGED <<layoutLoading, authChecked, isAuthorized, redirected,
                        pending, fired>>
       ELSE /\ fired' = TRUE
            /\ IF u = NoUser
                 THEN RedirectToLogin /\ UNCHANGED pending
                 ELSE /\ layoutLoading' = TRUE
                      /\ authChecked' = FALSE
                      /\ pending' = pending \cup
                                      {[n |-> notifCount + 1, uid |-> u]}
                      /\ UNCHANGED <<isAuthorized, redirected>>
  /\ UNCHANGED isMounted
  /\ UNCHANGED <<storeVars, pageVars, asyncVars, auxVars>>

\* await getDoc(doc(db, "users", user.uid)) of the callback p settles
RoleCheckSettles(p, ok) ==
  /\ p \in pending
  /\ pending' = pending \ {p}
  /\ IF ~isMounted
       THEN /\ lastEvent' = Event("roleCheck", "unmounted")
            /\ UNCHANGED <<layoutLoading, authChecked, isAuthorized, redirected>>
       ELSE IF ~ok
              THEN /\ lastEvent' = Event("roleCheck", "fault")
                   /\ RedirectToLogin
              ELSE IF ~UserDocExists(p.uid) \/ UserRole(p.uid) # "admin"
                     THEN /\ lastEvent' = Event("roleCheck", "denied")
                          /\ RedirectToLogin
                     ELSE /\ lastEvent' = Event("roleCheck", "admin")
                          /\ Authorize
  /\ UNCHANGED <<isMounted, session, fired, notifCount>>
  /\ UNCHANGED <<storeVars, pageVars, asyncVars, auxVars>>

\* the cleanup of the effect: the navigation to /login, or away from the
\* dashboard, unmounts the layout
Unmount ==
  /\ isMounted
  /\ isMounted' = FALSE
  /\ lastEvent' = Event("layout", "unmount")
  /\ UNCHANGED <<layoutLoading, isAuthorized, authChecked>>
  /\ UNCHANGED authVars
  /\ UNCHANGED <<storeVars, pageVars, asyncVars, auxVars>>

\* the layout is mounted again: fresh state, a new subscription.  The
\* callbacks of the previous mount hold its isMounted flag, which stays
\* false, so they have all returned before this mount is observed.
Mount ==
  /\ ~isMounted
  /\ pending = {}
  /\ isMounted' = TRUE
  /\ layoutLoading' = TRUE
  /\ isAuthorized' = FALSE
  /\ authChecked' = FALSE
  /\ fired' = FALSE
  /\ redirected' = FALSE
  /\ lastEvent' = Event("layout", "mount")
  /\ UNCHANGED <<session, pending, notifCount>>
  /\ UNCHANGED <<storeVars, pageVars, asyncVars, auxVars>>

(***************************************************************************)
(* LoginPage: handleSubmit                                                 *)
(***************************************************************************)

\* the error.code values the catch block of handleSubmit tests
MappedAuthCodes ==
  { "auth/user-not-found", "auth/wrong-password", "auth/invalid-email",
    "auth/user-disabled", "auth/too-many-requests" }

\* the faults a rejected call can raise in handleSubmit: error.code and
\* error.message ("" when the fault carries no message)
LoginFaults ==
  { [code |-> c, message |-> m] :
      c \in MappedAuthCodes \cup {"auth/network-request-failed", "unavailable"},
      m \in {"", "Firebase: Error"} }

GenericLoginMessage == "Failed to sign in. Please try again."

\* no fault has been caught
NoFault == [code |-> "null", message |-> ""]

\* a catch block whose wrong-password branch repeats the user-not-found text
LoginErrorMessage_SharedText(f) ==
  CASE f.code \in {"auth/user-not-found", "auth/wrong-password"} ->
         "No account found with this email address."
    [] f.code = "auth/invalid-email" -> "Invalid email address."
    [] f.code = "auth/user-disabled" -> "This account has been disabled."
    [] f.code = "auth/too-many-requests" ->
         "Too many failed attempts. Please try again later."
    [] OTHER -> IF f.message # "" THEN f.message ELSE GenericLoginMessage

\* errorMessage of the catch block of handleSubmit
LoginErrorMessage(f) ==
  CASE f.code = "auth/user-not-found" ->
         "No account found with this email address."
    [] f.code = "auth/wrong-password" ->
         "Incorrect password. Please try again."
    [] f.code = "auth/invalid-email" -> "Invalid email address."
    [] f.code = "auth/user-disabled" -> "This account has been disabled."
    [] f.code = "auth/too-many-requests" ->
         "Too many failed attempts. Please try again later."
    [] OTHER -> IF f.message # "" THEN f.message ELSE GenericLoginMessage

\* useState of LoginPage; pc is the await handleSubmit is suspended at,
\* caught the error object its catch block last received
LoginPageInit ==
  [pc |-> "idle", error |-> NoError, loading |-> FALSE, uid |-> "null",
   denial |-> "null", pushed |-> FALSE, caught |-> NoFault]

\* catch and finally of handleSubmit
LoginCatch(f) ==
  loginPage' = [loginPage EXCEPT !.pc = "idle",
                                 !.error = LoginErrorMessage(f),
                                 !.caught = f,
                                 !.loading = FALSE]

\* the form is submitted: handleSubmit up to await signInWithEmailAndPassword
LoginSubmit(filled, u) ==
  /\ loginPage.pc = "idle"
  /\ ~loginPage.loading
  /\ IF ~filled
       THEN /\ lastEvent' = Event("loginSubmit", "empty")
            /\ loginPage' =
                 [loginPage EXCEPT
                    !.error = "Please enter both email and password"]
       ELSE /\ lastEvent' = Event("loginSubmit", u)
            /\ loginPage' = [loginPage EXCEPT !.error = NoError,
                                              !.loading = TRUE,
                                              !.pc = "signIn",
                                              !.uid = u,
                                              !.pushed = FALSE]
  /\ UNCHANGED <<storeVars, pageVars, asyncVars, layoutVars, authVars>>
  /\ UNCHANGED <<listVars, techPageVars, scriptVars, otherVars>>

\* await signInWithEmailAndPassword(auth, email, password) settles
SignInSettles(ok, f) ==
  /\ loginPage.pc = "signIn"
  /\ IF ok
       THEN /\ lastEvent' = Event("signIn", "ok")
            /\ session' = loginPage.uid
            /\ loginPage' = [loginPage EXCEPT !.pc = "getDoc"]
       ELSE /\ lastEvent' = Event("signInFault", f.code)
            /\ LoginCatch(f)
            /\ UNCHANGED session
  /\ UNCHANGED <<fired, pending, notifCount, redirected>>
  /\ UNCHANGED <<storeVars, pageVars, asyncVars, layoutVars>>
  /\ UNCHANGED <<listVars, techPageVars, scriptVars, otherVars>>

\* await getDoc(doc(db, "users", user.uid)) settles
LoginGetDocSettles(ok, f) ==
  /\ loginPage.pc = "getDoc"
  /\ IF ~ok
       THEN /\ lastEvent' = Event("loginGetDocFault", f.code)
            /\ LoginCatch(f)
       ELSE IF ~UserDocExists(loginPage.uid)
              THEN /\ lastEvent' = Event("loginGetDoc", "missing")
                   /\ loginPage' = [loginPage EXCEPT !.pc = "signOut",
                                                     !.denial = "missing"]
              ELSE IF UserRole(loginPage.uid) # "admin"
                     THEN /\ lastEvent' = Event("loginGetDoc", "not-admin")
                          /\ loginPage' =
                               [loginPage EXCEPT !.pc = "signOut",
                                                 !.denial = "not-admin"]
                     ELSE /\ lastEvent' = Event("loginGetDoc", "admin")
                          /\ loginPage' = [loginPage EXCEPT !.pc = "idle",
                                                            !.pushed = TRUE,
                                                            !.loading = FALSE]
  /\ UNCHANGED <<storeVars, pageVars, asyncVars, layoutVars, authVars>>
  /\ UNCHANGED <<listVars, techPageVars, scriptVars, otherVars>>

\* await signOut(auth) of a denied sign-in settles
LoginSignOutSettles(ok, f) ==
  /\ loginPage.pc = "signOut"
  /\ IF ok
       THEN /\ lastEvent' = Event("loginSignOut", loginPage.denial)
            /\ session' = NoUser
            /\ loginPage' =
                 [loginPage EXCEPT
                    !.pc = "idle",
                    !.loading = FALSE,
                    !.error = IF loginPage.denial = "missing"
                                THEN "Access denied. User account not found."
                                ELSE "Access denied. Admin privileges required."]
       ELSE /\ lastEvent' = Event("loginSignOutFault", f.code)
            /\ LoginCatch(f)
            /\ UNCHANGED session
  /\ UNCHANGED <<fired, pending, notifCount, redirected>>
  /\ UNCHANGED <<storeVars, pageVars, asyncVars, layoutVars>>
  /\ UNCHANGED <<listVars, techPageVars, scriptVars, otherVars>>

(***************************************************************************)
(* The list pages: BookingsPage, Dashboard, ServicesPage                   *)
(***************************************************************************)

ServiceIds == {"s1"}
BookingIds == {"b1", "b2"}

\* a services/{id} document that does not exist; a field that is absent
\* from a document is ""
NoServiceDoc ==
  [exists |-> FALSE, title |-> "", name |-> "", isActive |-> FALSE]

ServiceDocs ==
  { [exists |-> TRUE, title |-> t, name |-> n, isActive |-> a] :
      t \in {"", "AC Service"}, n \in {"", "AC Repair"}, a \in BOOLEAN }

\* a bookings/{id} document that does not exist
NoListBooking ==
  [exists |-> FALSE, serviceId |-> "null", technicianId |-> NoTechId,
   status |-> "null"]

\* bookings/{id} documents: serviceId "s9" and technicianId "t9" name no
\* stored document
ListBookingDocs ==
  { [exists |-> TRUE, serviceId |-> "s1", technicianId |-> NoTechId,
     status |-> "pending"],
    [exists |-> TRUE, serviceId |-> "s9", technicianId |-> NoTechId,
     status |-> "pending"],
    [exists |-> TRUE, serviceId |-> "s1", technicianId |-> "t1",
     status |-> "assigned"],
    [exists |-> TRUE, serviceId |-> "s9", technicianId |-> "t9",
     status |-> "assigned"],
    [exists |-> TRUE, serviceId |-> "s1", technicianId |-> "t9",
     status |-> "completed"] }

\* a || b of JavaScript on strings, undefined and "" being falsy
Or(a, b) == IF a # "" THEN a ELSE b

\* the ids of the documents a getDocs of the collection returns
ServicesSnapshot == {s \in ServiceIds : stServices[s].exists}
BookingsSnapshot == {b \in BookingIds : stBookings[b].exists}

\* servicesMap.get(id) of BookingsPage.fetchBookings, "" for undefined
BookingsServicesMap(id) ==
  IF id \in ServicesSnapshot
    THEN Or(stServices[id].title, Or(stServices[id].name, ""))
    ELSE ""

\* servicesMap.get(id) of Dashboard.fetchRecentBookings, "" for undefined
DashboardServicesMap(id) ==
  IF id \in ServicesSnapshot THEN stServices[id].name ELSE ""

\* techniciansMap.get(id) of Dashboard.fetchRecentBookings, "" for undefined
TechniciansMap(id) == IF id \in Techs THEN stTech[id].name ELSE ""

\* a name resolution without its sentinel
ServiceName_NoDefault(found) == found

\* servicesMap.get(data.serviceId) || "Unknown Service"
ServiceName(found) == Or(found, "Unknown Service")

\* data.technicianId ? techniciansMap.get(...) || "Unknown Technician"
\*                   : "Unassigned"
TechnicianName(technicianId) ==
  IF technicianId # NoTechId
    THEN Or(TechniciansMap(technicianId), "Unknown Technician")
    ELSE "Unassigned"

\* bookingsData of BookingsPage.fetchBookings
BookingsData ==
  { [id |-> b, serviceId |-> stBookings[b].serviceId,
     serviceName |-> ServiceName(BookingsServicesMap(stBookings[b].serviceId))] :
      b \in BookingsSnapshot }

\* bookings of Dashboard.fetchRecentBookings
RecentBookingsData ==
  { [id |-> b, serviceId |-> stBookings[b].serviceId,
     technicianId |-> stBookings[b].technicianId,
     serviceName |->
       ServiceName(DashboardServicesMap(stBookings[b].serviceId)),
     technicianName |-> TechnicianName(stBookings[b].technicianId)] :
      b \in BookingsSnapshot }

\* servicesData of ServicesPage.fetchServices
ServicesData ==
  { [id |-> s, title |-> Or(stServices[s].title, Or(stServices[s].name, "")),
     isActive |-> stServices[s].isActive] :
      s \in ServicesSnapshot }

\* the four counts of Dashboard.fetchStats
StatsData ==
  [totalBookings |-> Cardinality(BookingsSnapshot),
   pendingBookings |->
     Cardinality({b \in BookingsSnapshot : stBookings[b].status = "pending"}),
   totalTechnicians |-> Cardinality(Techs),
   totalServices |-> Cardinality(ServicesSnapshot)]

NoStats ==
  [totalBookings |-> 0, pendingBookings |-> 0, totalTechnicians |-> 0,
   totalServices |-> 0]

\* useState of the three pages
BookingsPageInit == [loading |-> TRUE, bookings |-> {}]
DashboardInit ==
  [loading |-> TRUE, bookingsLoading |-> TRUE, statsError |-> NoError,
   bookingsError |-> NoError, stats |-> NoStats, recentBookings |-> {}]
\* confirmDialog.service === null
NoServiceRow == [id |-> "null", title |-> "", isActive |-> FALSE]

ServicesPageInit ==
  [loading |-> TRUE, services |-> {}, confirmDialog |-> NoServiceRow,
   toast |-> "null"]

\* BookingsPage.fetchBookings, run once by the mount effect: the Promise.all
\* of its two reads settles
fetchBookings(ok) ==
  /\ bookingsPage.loading
  /\ lastEvent' = Event("fetchBookings", IF ok THEN "ok" ELSE "fault")
  /\ bookingsPage' =
       [loading |-> FALSE,
        bookings |-> IF ok THEN BookingsData ELSE bookingsPage.bookings]
  /\ UNCHANGED <<stServices, stBookings, dashboard, servicesPage>>
  /\ UNCHANGED <<storeVars, pageVars, asyncVars, layoutVars, authVars>>
  /\ UNCHANGED <<loginVars, techPageVars, scriptVars, otherVars>>

\* Dashboard.fetchRecentBookings, run once by its mount effect
fetchRecentBookings(ok) ==
  /\ dashboard.bookingsLoading
  /\ lastEvent' = Event("fetchRecentBookings", IF ok THEN "ok" ELSE "fault")
  /\ dashboard' =
       IF ok
         THEN [dashboard EXCEPT !.bookingsLoading = FALSE,
                                !.bookingsError = NoError,
                                !.recentBookings = RecentBookingsData]
         ELSE [dashboard EXCEPT
                 !.bookingsLoading = FALSE,
                 !.bookingsError =
                   "Unable to load recent bookings. Please try again later."]
  /\ UNCHANGED <<stServices, stBookings, bookingsPage, servicesPage>>
  /\ UNCHANGED <<storeVars, pageVars, asyncVars, layoutVars, authVars>>
  /\ UNCHANGED <<loginVars, techPageVars, scriptVars, otherVars>>

\* Dashboard.fetchStats, run once by its mount effect; ok when each of its
\* four reads resolved
fetchStats(ok) ==
  /\ dashboard.loading
  /\ lastEvent' = Event("fetchStats", IF ok THEN "ok" ELSE "fault")
  /\ dashboard' =
       IF ok
         THEN [dashboard EXCEPT !.loading = FALSE,
                                !.statsError = NoError,
                                !.stats = StatsData]
         ELSE [dashboard EXCEPT
                 !.loading = FALSE,
                 !.statsError =
                   "Unable to load dashboard statistics. Please try again later."]
  /\ UNCHANGED <<stServices, stBookings, bookingsPage, servicesPage>>
  /\ UNCHANGED <<storeVars, pageVars, asyncVars, layoutVars, authVars>>
  /\ UNCHANGED <<loginVars, techPageVars, scriptVars, otherVars>>

\* ServicesPage.fetchServices, run by the mount effect
fetchServices(ok) ==
  /\ servicesPage.loading
  /\ \A c \in svcCalls : c.pc # "getDocs"
  /\ lastEvent' = Event("fetchServices", IF ok THEN "ok" ELSE "fault")
  /\ servicesPage' =
       [servicesPage EXCEPT !.loading = FALSE,
                            !.services = IF ok THEN ServicesData ELSE @]
  /\ UNCHANGED <<stServices, stBookings, bookingsPage, dashboard>>
  /\ UNCHANGED <<storeVars, pageVars, asyncVars, layoutVars, authVars>>
  /\ UNCHANGED <<loginVars, techPageVars, scriptVars, otherVars>>

\* what each page renders in place of its rows
BookingsPageView ==
  IF bookingsPage.loading THEN "loading"
  ELSE IF bookingsPage.bookings = {} THEN "empty" ELSE "rows"

ServicesPageView ==
  IF servicesPage.loading THEN "loading"
  ELSE IF servicesPage.services = {} THEN "empty" ELSE "rows"

RecentBookingsView ==
  IF dashboard.bookingsLoading THEN "loading"
  ELSE IF dashboard.bookingsError # NoError THEN "error"
  ELSE IF dashboard.recentBookings = {} THEN "empty" ELSE "rows"

(***************************************************************************)
(* ServicesPage: the isActive toggle                                       *)
(***************************************************************************)

\* the handleToggleStatus calls that may be suspended at one time
MaxServiceCalls == 2

\* the rows of the services table are rendered
ServiceRowsRendered ==
  /\ ~servicesPage.loading
  /\ servicesPage.services # {}

\* prevServices.map(s => s.id === service.id
\*                        ? {...s, isActive: newStatus} : s)
ToggledServices(rows, row) ==
  { IF r.id = row.id THEN [r EXCEPT !.isActive = ~row.isActive] ELSE r :
      r \in rows }

\* ServicesPage.handleToggleStatus(service) up to await updateDoc(...)
serviceToggleStatus(row) ==
  LET call == [pc |-> "updateDoc", id |-> row.id, newStatus |-> ~row.isActive]
  IN /\ Cardinality(svcCalls) < MaxServiceCalls
     /\ call \notin svcCalls
     /\ svcCalls' = svcCalls \cup {call}
     /\ servicesPage' =
          [servicesPage EXCEPT
             !.services = ToggledServices(servicesPage.services, row),
             !.confirmDialog = NoServiceRow]

\* ServicesPage.handleToggleStatusClick(service) from a rendered row
serviceToggleStatusClick(row) ==
  /\ ServiceRowsRendered
  /\ row \in servicesPage.services
  /\ IF row.isActive
       THEN /\ lastEvent' = Event("serviceToggleClick", "confirm")
            /\ servicesPage' = [servicesPage EXCEPT !.confirmDialog = row]
            /\ UNCHANGED svcCalls
       ELSE /\ lastEvent' = Event("serviceToggleClick", "enable")
            /\ serviceToggleStatus(row)
  /\ UNCHANGED <<stServices, stBookings, bookingsPage, dashboard, peer>>
  /\ UNCHANGED <<storeVars, pageVars, asyncVars, layoutVars, authVars>>
  /\ UNCHANGED <<loginVars, techPageVars, scriptVars>>

\* the Disable button of the confirmation dialog: handleToggleStatus, then
\* setConfirmDialog({isOpen: false, service: null})
ConfirmDisable ==
  /\ servicesPage.confirmDialog # NoServiceRow
  /\ lastEvent' = Event("serviceToggleClick", "disable")
  /\ serviceToggleStatus(servicesPage.confirmDialog)
  /\ UNCHANGED <<stServices, stBookings, bookingsPage, dashboard, peer>>
  /\ UNCHANGED <<storeVars, pageVars, asyncVars, layoutVars, authVars>>
  /\ UNCHANGED <<loginVars, techPageVars, scriptVars>>

\* the Cancel button or the backdrop of the confirmation dialog
CancelDisable ==
  /\ servicesPage.confirmDialog # NoServiceRow
  /\ lastEvent' = Event("serviceToggleClick", "cancel")
  /\ servicesPage' = [servicesPage EXCEPT !.confirmDialog = NoServiceRow]
  /\ UNCHANGED <<stServices, stBookings, bookingsPage, dashboard>>
  /\ UNCHANGED otherVars
  /\ UNCHANGED <<storeVars, pageVars, asyncVars, layoutVars, authVars>>
  /\ UNCHANGED <<loginVars, techPageVars, scriptVars>>

\* await updateDoc(serviceRef, {isActive: newStatus}) settles: the write is
\* applied and the call ends, or the catch block starts fetchServices
ServiceUpdateSettles(c, ok) ==
  /\ c \in svcCalls
  /\ c.pc = "updateDoc"
  /\ IF ok
       THEN /\ lastEvent' = Event("serviceUpdate", "ok")
            /\ stServices' = [stServices EXCEPT ![c.id].isActive = c.newStatus]
            /\ svcCalls' = svcCalls \ {c}
            /\ servicesPage' =
                 [servicesPage EXCEPT
                    !.toast = IF c.newStatus
                                THEN "Service enabled successfully"
                                ELSE "Service disabled successfully"]
       ELSE /\ lastEvent' = Event("serviceUpdate", "fault")
            /\ UNCHANGED stServices
            /\ svcCalls' = (svcCalls \ {c}) \cup {[c EXCEPT !.pc = "getDocs"]}
            /\ servicesPage' = [servicesPage EXCEPT !.loading = TRUE]
  /\ UNCHANGED <<stBookings, bookingsPage, dashboard, peer>>
  /\ UNCHANGED <<storeVars, pageVars, asyncVars, layoutVars, authVars>>
  /\ UNCHANGED <<loginVars, techPageVars, scriptVars>>

\* services after the fetchServices call of the catch block: setServices
\* runs only when getDocs resolved
RecoveredServices(c, ok) ==
  IF ok THEN ServicesData ELSE servicesPage.services

\* await getDocs(...) of the fetchServices call made by the catch block of
\* handleToggleStatus settles; the catch block ends with its toast
ServiceRefetchSettles(c, ok) ==
  /\ c \in svcCalls
  /\ c.pc = "getDocs"
  /\ lastEvent' = Event("serviceRefetch", IF ok THEN "ok" ELSE "fault")
  /\ svcCalls' = svcCalls \ {c}
  /\ servicesPage' =
       [servicesPage EXCEPT !.loading = FALSE,
                            !.services = RecoveredServices(c, ok),
                            !.toast = "Failed to update service status"]
  /\ UNCHANGED <<stServices, stBookings, bookingsPage, dashboard, peer>>
  /\ UNCHANGED <<storeVars, pageVars, asyncVars, layoutVars, authVars>>
  /\ UNCHANGED <<loginVars, techPageVars, scriptVars>>

(***************************************************************************)
(* TechniciansPage: fetchTechnicians and the status toggle                 *)
(***************************************************************************)

\* the calls of the page that may be suspended at an await at one time
MaxTechCalls == 2

\* confirmDialog.technician === null
NoRow == [id |-> NoTechId, name |-> "null", active |-> FALSE]

\* techniciansData of fetchTechnicians
TechniciansData ==
  { [id |-> t, name |-> stTech[t].name, active |-> stTech[t].active] :
      t \in Techs }

\* the call of fetchTechnicians the mount effect makes
MountFetch ==
  [kind |-> "fetch", pc |-> "getDocs", id |-> NoTechId, newStatus |-> FALSE]

\* useState of TechniciansPage
TechniciansPageInit ==
  [loading |-> TRUE, fetchError |-> NoError, technicians |-> {},
   confirmDialog |-> NoRow, toast |-> "null"]

\* the rows of the table are rendered
TechnicianRowsRendered ==
  /\ ~techniciansPage.loading
  /\ techniciansPage.fetchError = NoError

\* prevTechnicians.map(t => t.id === technician.id
\*                          ? {...t, active: newStatus} : t)
ToggledRows(rows, row) ==
  { IF t.id = row.id THEN [t EXCEPT !.active = ~row.active] ELSE t :
      t \in rows }

\* handleToggleStatus(technician) up to await updateDoc(technicianRef, ...)
handleToggleStatus(row) ==
  LET call == [kind |-> "toggle", pc |-> "updateDoc", id |-> row.id,
               newStatus |-> ~row.active]
  IN /\ Cardinality(techCalls) < MaxTechCalls
     /\ call \notin techCalls
     /\ techCalls' = techCalls \cup {call}
     /\ techniciansPage' =
          [techniciansPage EXCEPT
             !.technicians = ToggledRows(techniciansPage.technicians, row)]

\* handleToggleStatusClick(technician) from the button of a rendered row
handleToggleStatusClick(row) ==
  /\ TechnicianRowsRendered
  /\ row \in techniciansPage.technicians
  /\ IF row.active
       THEN /\ lastEvent' = Event("toggleClick", "confirm")
            /\ techniciansPage' =
                 [techniciansPage EXCEPT !.confirmDialog = row]
            /\ UNCHANGED techCalls
       ELSE /\ lastEvent' = Event("toggleClick", "activate")
            /\ handleToggleStatus(row)
  /\ UNCHANGED <<storeVars, pageVars, asyncVars, layoutVars, authVars>>
  /\ UNCHANGED <<loginVars, listVars, scriptVars, otherVars>>

\* the Deactivate button of the confirmation dialog
ConfirmDeactivate ==
  /\ techniciansPage.confirmDialog # NoRow
  /\ lastEvent' = Event("toggleClick", "deactivate")
  /\ handleToggleStatus(techniciansPage.confirmDialog)
  /\ UNCHANGED <<storeVars, pageVars, asyncVars, layoutVars, authVars>>
  /\ UNCHANGED <<loginVars, listVars, scriptVars, otherVars>>

\* the Cancel button or the backdrop of the confirmation dialog
CancelDeactivate ==
  /\ techniciansPage.confirmDialog # NoRow
  /\ lastEvent' = Event("toggleClick", "cancel")
  /\ techniciansPage' = [techniciansPage EXCEPT !.confirmDialog = NoRow]
  /\ UNCHANGED techCalls
  /\ UNCHANGED <<storeVars, pageVars, asyncVars, layoutVars, authVars>>
  /\ UNCHANGED <<loginVars, listVars, scriptVars, otherVars>>

\* await updateDoc(technicianRef, {active: newStatus}) settles: the write
\* is applied and the call ends, or the catch block starts fetchTechnicians
ToggleUpdateSettles(c, ok) ==
  /\ c \in techCalls
  /\ c.kind = "toggle"
  /\ c.pc = "updateDoc"
  /\ IF ok
       THEN /\ lastEvent' = Event("toggleUpdate", "ok")
            /\ stTech' = [stTech EXCEPT ![c.id].active = c.newStatus]
            /\ techCalls' = techCalls \ {c}
            /\ techniciansPage' =
                 [techniciansPage EXCEPT
                    !.confirmDialog = NoRow,
                    !.toast = IF c.newStatus
                                THEN "Technician activated successfully"
                                ELSE "Technician deactivated successfully"]
       ELSE /\ lastEvent' = Event("toggleUpdate", "fault")
            /\ UNCHANGED stTech
            /\ techCalls' = (techCalls \ {c}) \cup {[c EXCEPT !.pc = "getDocs"]}
            /\ techniciansPage' =
                 [techniciansPage EXCEPT !.loading = TRUE,
                                         !.fetchError = NoError]
  /\ UNCHANGED <<stBooking, stServiceExists>>
  /\ UNCHANGED <<pageVars, asyncVars, layoutVars, authVars>>
  /\ UNCHANGED <<loginVars, listVars, scriptVars, otherVars>>

\* await getDocs(collection(db, "technicians")) of a fetchTechnicians call
\* settles; a call made by the catch block of handleToggleStatus goes on to
\* that block's toast and finally
fetchTechniciansSettles(c, ok) ==
  /\ c \in techCalls
  /\ c.pc = "getDocs"
  /\ lastEvent' = Event("fetchTechnicians", IF ok THEN "ok" ELSE "fault")
  /\ techCalls' = techCalls \ {c}
  /\ techniciansPage' =
       [techniciansPage EXCEPT
          !.loading = FALSE,
          !.technicians = IF ok THEN TechniciansData ELSE @,
          !.fetchError =
            IF ok THEN @
            ELSE "Unable to load technicians. Please try again later.",
          !.toast = IF c.kind = "toggle"
                      THEN "Failed to update technician status"
                      ELSE IF ok THEN @ ELSE "Failed to load technicians.",
          !.confirmDialog = IF c.kind = "toggle" THEN NoRow ELSE @]
  /\ UNCHANGED <<storeVars, pageVars, asyncVars, layoutVars, authVars>>
  /\ UNCHANGED <<loginVars, listVars, scriptVars, otherVars>>

TechniciansPageView ==
  IF techniciansPage.loading THEN "loading"
  ELSE IF techniciansPage.fetchError # NoError THEN "error"
  ELSE IF techniciansPage.technicians = {} THEN "empty" ELSE "rows"

(***************************************************************************)
(* The one-shot admin bootstrap scripts                                    *)
(***************************************************************************)

Scripts ==
  { "createNewAdmin", "createAdmin", "quickAdminSetup", "simpleAdminSetup",
    "resetAdminSimple", "resetAdmin" }

\* the scripts that take and validate an email and a password
ValidatingScripts == {"createNewAdmin", "resetAdminSimple", "resetAdmin"}

\* the scripts that delete the existing users first
ResettingScripts == {"resetAdminSimple", "resetAdmin"}

CreateFaults == {"auth/email-already-in-use", "auth/network-request-failed"}
SetDocFaults == {"permission-denied", "unavailable"}

\* no script is running
NoScriptRun ==
  [script |-> "null", pc |-> "exited", exit |-> "none", valid |-> TRUE,
   account |-> FALSE, doc |-> FALSE, fault |-> "none"]

\* a script started from the command line; account tells whether the
\* email it registers is registered already
ScriptStarted(sc, v, acct) ==
  [script |-> sc, pc |-> "start", exit |-> "none", valid |-> v,
   account |-> acct, doc |-> FALSE, fault |-> "none"]

\* how each script ends when account creation raises the fault: the status
\* it passes to process.exit, or "returned" when it calls no process.exit
CreateFaultExit(sc, code) ==
  IF code = "auth/email-already-in-use"
    THEN CASE sc \in {"quickAdminSetup", "simpleAdminSetup"} -> "0"
           [] sc = "resetAdminSimple" -> "returned"
           [] OTHER -> "1"
    ELSE "1"

\* how each script goes on when the users/{uid} write raises the fault
SetDocFaultExit(sc, code) ==
  CASE sc = "quickAdminSetup" -> "0"
    [] sc \in {"createNewAdmin", "resetAdminSimple"} ->
         IF code = "permission-denied" THEN "0" ELSE "1"
    [] OTHER -> "1"

\* the run ends with process.exit(status), or returns to the event loop
Ended(run, status) ==
  IF status = "returned"
    THEN [run EXCEPT !.pc = "returned"]
    ELSE [run EXCEPT !.pc = "exited", !.exit = status]

\* the script up to its first await: argument validation
ScriptValidates ==
  /\ scriptRun.pc = "start"
  /\ IF scriptRun.script \in ValidatingScripts /\ ~scriptRun.valid
       THEN /\ lastEvent' = Event("script", "invalid")
            /\ scriptRun' = Ended(scriptRun, "1")
       ELSE /\ lastEvent' = Event("script", "started")
            /\ scriptRun' =
                 [scriptRun EXCEPT
                    !.pc = IF scriptRun.script \in ResettingScripts
                             THEN "cleanup" ELSE "createUser"]
  /\ UNCHANGED <<storeVars, pageVars, asyncVars, layoutVars, authVars>>
  /\ UNCHANGED <<loginVars, listVars, techPageVars, otherVars>>

\* the deletion of the existing users and documents settles: resetAdminSimple
\* catches every fault of it, resetAdmin only a missing credential
CleanupSettles(outcome) ==
  /\ scriptRun.pc = "cleanup"
  /\ lastEvent' = Event("scriptCleanup", outcome)
  /\ scriptRun' =
       IF outcome = "fault" /\ scriptRun.script = "resetAdmin"
         THEN Ended(scriptRun, "1")
         ELSE [scriptRun EXCEPT
                 !.pc = "createUser",
                 !.account = IF outcome = "ok" /\ scriptRun.script = "resetAdmin"
                               THEN FALSE ELSE @]
  /\ UNCHANGED <<storeVars, pageVars, asyncVars, layoutVars, authVars>>
  /\ UNCHANGED <<loginVars, listVars, techPageVars, otherVars>>

\* the account creation (createUserWithEmailAndPassword, auth.createUser)
\* settles
CreateUserSettles(ok, code) ==
  /\ scriptRun.pc = "createUser"
  /\ ok => ~scriptRun.account
  /\ (~ok /\ code = "auth/email-already-in-use") => scriptRun.account
  /\ IF ok
       THEN /\ lastEvent' = Event("createUser", "ok")
            /\ scriptRun' = [scriptRun EXCEPT !.pc = "setDoc",
                                              !.account = TRUE]
       ELSE /\ lastEvent' = Event("createUser", code)
            /\ scriptRun' =
                 Ended([scriptRun EXCEPT !.fault = code],
                       CreateFaultExit(scriptRun.script, code))
  /\ UNCHANGED <<storeVars, pageVars, asyncVars, layoutVars, authVars>>
  /\ UNCHANGED <<loginVars, listVars, techPageVars, otherVars>>

\* the write of users/{uid} with role "admin" settles
SetDocSettles(ok, code) ==
  /\ scriptRun.pc = "setDoc"
  /\ IF ok
       THEN /\ lastEvent' = Event("setDoc", "ok")
            /\ scriptRun' = Ended([scriptRun EXCEPT !.doc = TRUE], "0")
       ELSE /\ lastEvent' = Event("setDoc", code)
            /\ scriptRun' =
                 Ended(scriptRun, SetDocFaultExit(scriptRun.script, code))
  /\ UNCHANGED <<storeVars, pageVars, asyncVars, layoutVars, authVars>>
  /\ UNCHANGED <<loginVars, listVars, techPageVars, otherVars>>

\* a script that returned without process.exit: the process ends with
\* status 0 once its event loop is empty
EventLoopDrains ==
  /\ scriptRun.pc = "returned"
  /\ lastEvent' = Event("script", "drained")
  /\ scriptRun' = [scriptRun EXCEPT !.pc = "exited", !.exit = "0"]
  /\ UNCHANGED <<storeVars, pageVars, asyncVars, layoutVars, authVars>>
  /\ UNCHANGED <<loginVars, listVars, techPageVars, otherVars>>

(***************************************************************************)
(* A second session: BookingDetailPage of the same booking                 *)
(***************************************************************************)

\* the second session has not opened the page; closure is the booking its
\* suspended handleAssign call captured
NoPeer ==
  [pc |-> "closed", booking |-> NoBooking,
   selectedTechnicianId |-> EmptySelection, closure |-> NoBooking]

\* the early return of handleAssign, on the state of any session
HandleAssignBlocked(sel, b) ==
  \/ sel = EmptySelection
  \/ b = NoBooking
  \/ b.technicianId # NoTechId

\* fetchBookingDetails of the second session resolves: its local copy of
\* the stored booking
PeerLoads ==
  /\ peer.pc = "closed"
  /\ stBooking # NoBooking
  /\ lastEvent' = Event("peerLoad", "ok")
  /\ peer' = [peer EXCEPT !.pc = "loaded", !.booking = stBooking]
  /\ UNCHANGED svcCalls
  /\ UNCHANGED <<storeVars, pageVars, asyncVars, layoutVars, authVars>>
  /\ UNCHANGED <<loginVars, listVars, techPageVars, scriptVars>>

\* the second session selects t and confirms: its handleAssign up to
\* await updateDoc(...)
PeerConfirms(t) ==
  /\ peer.pc = "loaded"
  /\ stTech[t].active
  /\ ~HandleAssignBlocked(t, peer.booking)
  /\ lastEvent' = Event("peerAssign", t)
  /\ peer' = [pc |-> "updateDoc",
              booking |-> OptimisticBooking(peer.booking, t),
              selectedTechnicianId |-> t,
              closure |-> peer.booking]
  /\ UNCHANGED svcCalls
  /\ UNCHANGED <<storeVars, pageVars, asyncVars, layoutVars, authVars>>
  /\ UNCHANGED <<loginVars, listVars, techPageVars, scriptVars>>

\* a write that a transaction drops when the booking is already assigned
PeerWriteSettles_Transactional(ok) ==
  /\ peer.pc = "updateDoc"
  /\ IF ok
       THEN /\ lastEvent' = Event("peerWrite", "ok")
            /\ stBooking' = IF stBooking.technicianId = NoTechId
                               THEN UpdatedDocument(stBooking,
                                                    peer.selectedTechnicianId)
                               ELSE stBooking
            /\ peer' = [peer EXCEPT !.pc = "done"]
       ELSE /\ lastEvent' = Event("peerWrite", "fault")
            /\ UNCHANGED stBooking
            /\ peer' = [peer EXCEPT
                          !.pc = "loaded",
                          !.booking = RevertedBooking(peer.closure)]
  /\ UNCHANGED svcCalls
  /\ UNCHANGED <<stTech, stServiceExists>>
  /\ UNCHANGED <<pageVars, asyncVars, layoutVars, authVars>>
  /\ UNCHANGED <<loginVars, listVars, techPageVars, scriptVars>>

\* await updateDoc(...) of the second session settles
PeerWriteSettles(ok) ==
  /\ peer.pc = "updateDoc"
  /\ IF ok
       THEN /\ lastEvent' = Event("peerWrite", "ok")
            /\ stBooking' = UpdatedDocument(stBooking, peer.selectedTechnicianId)
            /\ peer' = [peer EXCEPT !.pc = "done"]
       ELSE /\ lastEvent' = Event("peerWrite", "fault")
            /\ UNCHANGED stBooking
            /\ peer' = [peer EXCEPT
                          !.pc = "loaded",
                          !.booking = RevertedBooking(peer.closure)]
  /\ UNCHANGED svcCalls
  /\ UNCHANGED <<stTech, stServiceExists>>
  /\ UNCHANGED <<pageVars, asyncVars, layoutVars, authVars>>
  /\ UNCHANGED <<loginVars, listVars, techPageVars, scriptVars>>

(***************************************************************************)
(* Initial states of the components that are not mounted                   *)
(***************************************************************************)

InitLists ==
  /\ bookingsPage = BookingsPageInit
  /\ dashboard = DashboardInit
  /\ servicesPage = ServicesPageInit

InitOther ==
  /\ peer = NoPeer
  /\ svcCalls = {}

InitAux ==
  /\ InitOther
  /\ loginPage = LoginPageInit
  /\ stServices = [s \in ServiceIds |-> NoServiceDoc]
  /\ stBookings = [b \in BookingIds |-> NoListBooking]
  /\ InitLists
  /\ techniciansPage = TechniciansPageInit
  /\ techCalls = {}
  /\ scriptRun = NoScriptRun

(***************************************************************************)
(* Initial states and specifications                                       *)
(***************************************************************************)

TechDocs ==
  { [t \in Techs |-> [name |-> TechName(t), active |-> a[t]]] :
      a \in [Techs -> BOOLEAN] }

InitPage ==
  /\ booking = NoBooking
  /\ service = "null"
  /\ technician = NoTechnician
  /\ activeTechnicians = {}
  /\ selectedTechnicianId = EmptySelection
  /\ loading = TRUE
  /\ error = NoError
  /\ isAssigning = FALSE
  /\ assignmentMessage = NoMessage
  /\ showConfirmDialog = FALSE
  /\ pcFetch = "booking"
  /\ inFlight = {}
  /\ timers = {}
  /\ writesIssued = 0

InitLayout ==
  /\ layoutLoading = TRUE
  /\ isAuthorized = FALSE
  /\ authChecked = FALSE
  /\ isMounted = TRUE
  /\ fired = FALSE
  /\ pending = {}
  /\ notifCount = 0
  /\ redirected = FALSE

Init ==
  /\ stBooking \in InitBookings
  /\ stTech \in TechDocs
  /\ stServiceExists \in BOOLEAN
  /\ InitPage
  /\ InitLayout
  /\ session = "admin"
  /\ InitAux
  /\ lastEvent = Event("init", "init")

InitGuard ==
  /\ stBooking = NoBooking
  /\ stTech \in {d \in TechDocs : \A t \in Techs : d[t].active}
  /\ stServiceExists = TRUE
  /\ InitPage
  /\ InitLayout
  /\ session \in Users \cup {NoUser}
  /\ InitAux
  /\ lastEvent = Event("init", "init")

\* the booking detail page driven through its controls
PageNext ==
  \/ \E ok \in BOOLEAN : FetchBooking(ok)
  \/ \E ok \in BOOLEAN : FetchService(ok)
  \/ \E ok \in BOOLEAN : FetchTechnician(ok)
  \/ \E ok \in BOOLEAN : FetchActiveTechnicians(ok)
  \/ \E v \in Techs \cup {EmptySelection} : SelectTechnician(v)
  \/ ClickAssign
  \/ ClickConfirm
  \/ ClickCancel
  \/ ClickBackdrop
  \/ \E c \in inFlight, ok \in BOOLEAN, code \in FaultCodes :
       UpdateDocSettles(c, ok, code)
  \/ \E c \in inFlight, ok \in BOOLEAN, code \in FaultCodes :
       GetDocSettles(c, ok, code)
  \/ \E a \in timers : TimerFires(a)

Next == PageNext

Spec == Init /\ [][Next]_vars

\* every backend call of handleAssign eventually resolves or rejects
BackendSettles ==
  /\ WF_vars(\E c \in inFlight, ok \in BOOLEAN, code \in FaultCodes :
               UpdateDocSettles(c, ok, code))
  /\ WF_vars(\E c \in inFlight, ok \in BOOLEAN, code \in FaultCodes :
               GetDocSettles(c, ok, code))

FairSpec == Init /\ [][Next]_vars /\ BackendSettles

\* the same page with its two handlers also called directly
HandlerNext ==
  \/ PageNext
  \/ CallHandleAssignClick
  \/ CallHandleAssign

HandlerSpec == Init /\ [][HandlerNext]_vars

\* the session guard
GuardNext ==
  \/ \E u \in Users \cup {NoUser} : AuthStateChanged(u)
  \/ \E p \in pending, ok \in BOOLEAN : RoleCheckSettles(p, ok)
  \/ Unmount
  \/ Mount

GuardSpec == InitGuard /\ [][GuardNext]_vars

\* the session guard when every role check settles before the next
\* session change is notified
SequentialGuardNext ==
  \/ \E u \in Users \cup {NoUser} : pending = {} /\ AuthStateChanged(u)
  \/ \E p \in pending, ok \in BOOLEAN : RoleCheckSettles(p, ok)
  \/ Unmount
  \/ Mount

SequentialGuardSpec == InitGuard /\ [][SequentialGuardNext]_vars

\* the login page, nobody signed in, the dashboard not mounted
InitLogin ==
  /\ stBooking = NoBooking
  /\ stTech \in {d \in TechDocs : \A t \in Techs : d[t].active}
  /\ stServiceExists = TRUE
  /\ InitPage
  /\ InitLayout
  /\ session = NoUser
  /\ InitAux
  /\ lastEvent = Event("init", "init")

LoginNext ==
  \/ \E filled \in BOOLEAN, u \in Users : LoginSubmit(filled, u)
  \/ \E ok \in BOOLEAN, f \in LoginFaults : SignInSettles(ok, f)
  \/ \E ok \in BOOLEAN, f \in LoginFaults : LoginGetDocSettles(ok, f)
  \/ \E ok \in BOOLEAN, f \in LoginFaults : LoginSignOutSettles(ok, f)

LoginSpec == InitLogin /\ [][LoginNext]_vars

\* the list pages, each mounted once over some stored collections
InitList ==
  /\ stBooking = NoBooking
  /\ stTech \in {d \in TechDocs : \A t \in Techs : d[t].active}
  /\ stServiceExists = TRUE
  /\ InitPage
  /\ InitLayout
  /\ session = "admin"
  /\ loginPage = LoginPageInit
  /\ stServices \in [ServiceIds -> ServiceDocs \cup {NoServiceDoc}]
  /\ stBookings \in [BookingIds -> ListBookingDocs \cup {NoListBooking}]
  /\ InitLists
  /\ techniciansPage = TechniciansPageInit
  /\ techCalls = {MountFetch}
  /\ scriptRun = NoScriptRun
  /\ InitOther
  /\ lastEvent = Event("init", "init")

ListNext ==
  \/ \E ok \in BOOLEAN : fetchBookings(ok)
  \/ \E ok \in BOOLEAN : fetchRecentBookings(ok)
  \/ \E ok \in BOOLEAN : fetchStats(ok)
  \/ \E ok \in BOOLEAN : fetchServices(ok)
  \/ \E c \in techCalls, ok \in BOOLEAN : fetchTechniciansSettles(c, ok)

ListSpec == InitList /\ [][ListNext]_vars

\* the technicians page and its status toggle
TechniciansNext ==
  \/ \E row \in techniciansPage.technicians : handleToggleStatusClick(row)
  \/ ConfirmDeactivate
  \/ CancelDeactivate
  \/ \E c \in techCalls, ok \in BOOLEAN : ToggleUpdateSettles(c, ok)
  \/ \E c \in techCalls, ok \in BOOLEAN : fetchTechniciansSettles(c, ok)

\* the booking detail page of a pending or assigned booking in one tab, the
\* technicians page in another
InitDirectory ==
  /\ stBooking \in {b \in InitBookings : b.status \in {"pending", "assigned"}}
  /\ stTech \in {d \in TechDocs : \A t \in Techs : d[t].active}
  /\ stServiceExists = TRUE
  /\ InitPage
  /\ InitLayout
  /\ session = "admin"
  /\ loginPage = LoginPageInit
  /\ stServices = [s \in ServiceIds |-> NoServiceDoc]
  /\ stBookings = [b \in BookingIds |-> NoListBooking]
  /\ InitLists
  /\ techniciansPage = TechniciansPageInit
  /\ techCalls = {MountFetch}
  /\ scriptRun = NoScriptRun
  /\ InitOther
  /\ lastEvent = Event("init", "init")

\* on the technicians page the administrator starts a toggle only when no
\* call of that page is pending
DirectoryNext ==
  \/ PageNext
  \/ \E row \in techniciansPage.technicians :
       techCalls = {} /\ handleToggleStatusClick(row)
  \/ techCalls = {} /\ ConfirmDeactivate
  \/ CancelDeactivate
  \/ \E c \in techCalls, ok \in BOOLEAN : ToggleUpdateSettles(c, ok)
  \/ \E c \in techCalls, ok \in BOOLEAN : fetchTechniciansSettles(c, ok)

DirectorySpec == InitDirectory /\ [][DirectoryNext]_vars

\* the technicians page alone, its calls overlapping
TechniciansSpec == InitDirectory /\ [][TechniciansNext]_vars

\* two sessions on the detail page of one unassigned booking
InitRace ==
  /\ stBooking \in {b \in InitBookings : b.status = "pending"}
  /\ stTech \in {d \in TechDocs : \A t \in Techs : d[t].active}
  /\ stServiceExists = TRUE
  /\ InitPage
  /\ InitLayout
  /\ session = "admin"
  /\ InitAux
  /\ lastEvent = Event("init", "init")

RaceNext ==
  \/ PageNext
  \/ PeerLoads
  \/ \E t \in Techs : PeerConfirms(t)
  \/ \E ok \in BOOLEAN : PeerWriteSettles(ok)

RaceSpec == InitRace /\ [][RaceNext]_vars

\* the detail page rendered as the child of the authorized layout
InitTeardown ==
  /\ stBooking \in InitBookings
  /\ stTech \in TechDocs
  /\ stServiceExists \in BOOLEAN
  /\ InitPage
  /\ layoutLoading = FALSE
  /\ isAuthorized = TRUE
  /\ authChecked = TRUE
  /\ isMounted = TRUE
  /\ fired = TRUE
  /\ pending = {}
  /\ notifCount = 1
  /\ redirected = FALSE
  /\ session = "admin"
  /\ InitAux
  /\ lastEvent = Event("init", "init")

\* the controls exist while the page is mounted; requests and timers settle
\* whether it is mounted or not
TeardownNext ==
  \/ \E ok \in BOOLEAN : FetchBooking(ok)
  \/ \E ok \in BOOLEAN : FetchService(ok)
  \/ \E ok \in BOOLEAN : FetchTechnician(ok)
  \/ \E ok \in BOOLEAN : FetchActiveTechnicians(ok)
  \/ \E v \in Techs \cup {EmptySelection} : isMounted /\ SelectTechnician(v)
  \/ isMounted /\ ClickAssign
  \/ isMounted /\ ClickConfirm
  \/ isMounted /\ ClickCancel
  \/ isMounted /\ ClickBackdrop
  \/ \E c \in inFlight, ok \in BOOLEAN, code \in FaultCodes :
       UpdateDocSettles(c, ok, code)
  \/ \E c \in inFlight, ok \in BOOLEAN, code \in FaultCodes :
       GetDocSettles(c, ok, code)
  \/ \E a \in timers : TimerFires(a)
  \/ Unmount

TeardownSpec == InitTeardown /\ [][TeardownNext]_vars

\* the services page and its status toggle
InitServices ==
  /\ stBooking = NoBooking
  /\ stTech \in {d \in TechDocs : \A t \in Techs : d[t].active}
  /\ stServiceExists = TRUE
  /\ InitPage
  /\ InitLayout
  /\ session = "admin"
  /\ loginPage = LoginPageInit
  /\ stServices \in [ServiceIds -> ServiceDocs \cup {NoServiceDoc}]
  /\ stBookings = [b \in BookingIds |-> NoListBooking]
  /\ InitLists
  /\ techniciansPage = TechniciansPageInit
  /\ techCalls = {}
  /\ scriptRun = NoScriptRun
  /\ InitOther
  /\ lastEvent = Event("init", "init")

ServicesNext ==
  \/ \E ok \in BOOLEAN : fetchServices(ok)
  \/ \E row \in servicesPage.services : serviceToggleStatusClick(row)
  \/ ConfirmDisable
  \/ CancelDisable
  \/ \E c \in svcCalls, ok \in BOOLEAN : ServiceUpdateSettles(c, ok)
  \/ \E c \in svcCalls, ok \in BOOLEAN : ServiceRefetchSettles(c, ok)

ServicesSpec == InitServices /\ [][ServicesNext]_vars

\* one run of a bootstrap script
InitScript ==
  /\ stBooking = NoBooking
  /\ stTech \in {d \in TechDocs : \A t \in Techs : d[t].active}
  /\ stServiceExists = TRUE
  /\ InitPage
  /\ InitLayout
  /\ session = NoUser
  /\ loginPage = LoginPageInit
  /\ stServices = [s \in ServiceIds |-> NoServiceDoc]
  /\ stBookings = [b \in BookingIds |-> NoListBooking]
  /\ InitLists
  /\ techniciansPage = TechniciansPageInit
  /\ techCalls = {}
  /\ scriptRun \in
       { ScriptStarted(sc, v, acct) :
           sc \in Scripts, v \in BOOLEAN, acct \in BOOLEAN }
  /\ InitOther
  /\ lastEvent = Event("init", "init")

ScriptNext ==
  \/ ScriptValidates
  \/ \E outcome \in {"ok", "credential", "fault"} : CleanupSettles(outcome)
  \/ \E ok \in BOOLEAN, code \in CreateFaults : CreateUserSettles(ok, code)
  \/ \E ok \in BOOLEAN, code \in SetDocFaults : SetDocSettles(ok, code)
  \/ EventLoopDrains

ScriptSpec == InitScript /\ [][ScriptNext]_vars

(***************************************************************************)
(* Properties                                                              *)
(***************************************************************************)

\* the handleAssign calls suspended at await updateDoc(...)
PendingWrites == {c \in inFlight : c.pc = "updateDoc"}

\* C1 - single-flight: whatever handlers are called while a booking write is
\* pending, at most one booking write is pending at any time, and no step
\* taken while isAssigning is true issues a booking write.
SingleFlight ==
  [][ /\ Cardinality(PendingWrites') <= 1
      /\ isAssigning => writesIssued' = writesIssued ]_vars

\* handleAssignClick and handleAssign have both been called and have
\* returned while the booking write was pending
SingleFlightWitness ==
  /\ isAssigning
  /\ PendingWrites # {}
  /\ lastEvent = Event("handleAssign", "return")

\* C2 - role guard: when every check settles before the next notification,
\* the children are rendered only while the latest notification carried a
\* session whose users/{uid} document exists with role "admin".
RoleGuard ==
  ChildrenRendered =>
    /\ session # NoUser
    /\ UserDocExists(session)
    /\ UserRole(session) = "admin"

\* C3 - fail closed: once a role check whose profile fetch raised a fault
\* has settled on the mounted layout, isAuthorized is false.
GuardFailClosed ==
  lastEvent = Event("roleCheck", "fault") => ~isAuthorized

\* C4 - optimistic rollback: when the booking write of a handleAssign call
\* is rejected, the call ends with the local booking's technicianId null,
\* its status the status before the attempt, and no technician detail.
OptimisticRollback ==
  [][ \A c \in inFlight :
        ( /\ c.pc = "updateDoc"
          /\ lastEvent'.op = "updateDoc"
          /\ lastEvent'.arg # "ok" )
        => /\ c \notin inFlight'
           /\ ~isAssigning'
           /\ booking'.technicianId = NoTechId
           /\ booking'.status = c.booking.status
           /\ technician' = NoTechnician ]_vars

\* the write of an attempt on a cancelled booking has been rejected
OptimisticRollbackWitness ==
  /\ lastEvent = Event("updateDoc", "permission-denied")
  /\ booking.status = "cancelled"
  /\ booking.technicianId = NoTechId
  /\ stBooking.technicianId = NoTechId

\* C5 - success convergence: when the booking write of a handleAssign call
\* for technician T has succeeded, the call ends with the local booking
\* assigned to T and the technician detail equal to T's stored document.
SuccessConvergence ==
  [][ \A c \in inFlight :
        (c.pc = "getDoc" /\ lastEvent'.op = "getDoc")
        => /\ booking'.technicianId = c.selectedTechnicianId
           /\ booking'.status = "assigned"
           /\ technician' = stTech'[c.selectedTechnicianId] ]_vars

\* C6 - visible state follows storage: with this page the only writer,
\* whenever no assignment is in flight the local booking's technicianId is
\* the technicianId of the stored booking document.
VisibleMatchesStorage ==
  (booking # NoBooking /\ ~isAssigning)
    => booking.technicianId = stBooking.technicianId

\* C7 - confirmation gate: a booking write is issued only by handleAssign
\* called from the open confirmation dialog, the store is written only for
\* such a call, and neither changing the selection nor clicking Assign
\* issues a write or changes the local or the stored booking.
ConfirmationGate ==
  [][ /\ writesIssued' # writesIssued
         => (showConfirmDialog /\ lastEvent' = Event("handleAssign", "write"))
      /\ stBooking' # stBooking => PendingWrites # {}
      /\ lastEvent'.op \in {"select", "handleAssignClick"}
         => /\ writesIssued' = writesIssued
            /\ inFlight' = inFlight
            /\ booking' = booking
            /\ stBooking' = stBooking ]_vars

\* a write has been issued from the dialog and applied by the store
ConfirmationGateWitness ==
  /\ lastEvent = Event("updateDoc", "ok")
  /\ writesIssued = 1
  /\ stBooking.technicianId \in Techs

\* the precondition of the assignment fails: a technician is already set on
\* the local booking, or no technician is selected
PreconditionFails ==
  \/ booking # NoBooking /\ booking.technicianId # NoTechId
  \/ selectedTechnicianId = EmptySelection

\* C8 - no-op precondition: a call of handleAssignClick or handleAssign
\* while the precondition fails issues no write and changes none of
\* booking, technician, selectedTechnicianId, isAssigning,
\* assignmentMessage and showConfirmDialog.
NoOpPrecondition ==
  [][ (lastEvent'.op \in {"handleAssignClick", "handleAssign"}
         /\ PreconditionFails)
      => /\ writesIssued' = writesIssued
         /\ inFlight' = inFlight
         /\ stBooking' = stBooking
         /\ UNCHANGED <<booking, technician, selectedTechnicianId,
                        isAssigning, assignmentMessage, showConfirmDialog>>
    ]_vars

\* handleAssignClick has been called with no technician selected on a
\* loaded, unassigned booking
NoOpPreconditionWitness ==
  /\ lastEvent = Event("handleAssignClick", "return")
  /\ DetailRendered
  /\ booking.technicianId = NoTechId
  /\ selectedTechnicianId = EmptySelection
  /\ ~isAssigning

\* C9 - dismissal: Cancel, or a backdrop click while not assigning, only
\* sets showConfirmDialog to false; no write is issued and booking,
\* technician, assignmentMessage, isAssigning and the staged selection are
\* unchanged.
DismissalFrame ==
  [][ (lastEvent'.op = "dismiss" /\ ~isAssigning)
      => /\ showConfirmDialog' = FALSE
         /\ writesIssued' = writesIssued
         /\ inFlight' = inFlight
         /\ stBooking' = stBooking
         /\ UNCHANGED <<booking, technician, assignmentMessage, isAssigning,
                        selectedTechnicianId>> ]_vars

\* the dialog has been dismissed by its backdrop with a technician staged
DismissalFrameWitness ==
  /\ lastEvent = Event("dismiss", "backdrop")
  /\ ~showConfirmDialog
  /\ selectedTechnicianId \in Techs

\* C10 - render suppression: the children are never rendered while a role
\* check of the mounted layout is unresolved.
RenderSuppressed ==
  ChildrenRendered => pending = {}

\* C11 - authorization faults force sign-out: once a role check of the
\* dashboard guard has found no users/{uid} document or a role other than
\* "admin", the session is signed out and the user is sent to the login
\* screen.
AuthorizationFaultSignsOut ==
  lastEvent = Event("roleCheck", "denied") =>
    /\ redirected
    /\ session = NoUser

\* C12 - no eligible technician: in every state of the booking detail page
\* whose eligible-technician list is empty, selectedTechnicianId is empty,
\* the confirmation dialog is closed and no booking write has been issued.
NoEligibleTechnician ==
  activeTechnicians = {} =>
    /\ selectedTechnicianId = EmptySelection
    /\ ~showConfirmDialog
    /\ writesIssued = 0
    /\ inFlight = {}

\* the page of an unassigned booking has loaded with no active technician
\* in the directory, and handleAssignClick has been called on it
NoEligibleTechnicianWitness ==
  /\ pcFetch = "done"
  /\ AssignSectionRendered
  /\ \A t \in Techs : ~stTech[t].active
  /\ activeTechnicians = {}
  /\ lastEvent = Event("handleAssignClick", "return")

\* the bookings a list fetch returns whose serviceId names no document of
\* the services collection
UnresolvedService(b) ==
  /\ b \in BookingsSnapshot
  /\ stBookings[b].serviceId \notin ServicesSnapshot

\* C13 - lookup default: when the fetch of BookingsPage or of the Dashboard
\* resolves, the list is loaded with one row for each fetched booking and no
\* error state; a booking whose serviceId is absent from the services
\* collection has serviceName "Unknown Service", and on the Dashboard a
\* booking without technicianId has technicianName "Unassigned", one whose
\* technicianId names no technician "Unknown Technician".
LookupDefault ==
  /\ lastEvent = Event("fetchBookings", "ok") =>
       /\ BookingsPageView # "loading"
       /\ {r.id : r \in bookingsPage.bookings} = BookingsSnapshot
       /\ \A r \in bookingsPage.bookings :
            UnresolvedService(r.id) => r.serviceName = "Unknown Service"
  /\ lastEvent = Event("fetchRecentBookings", "ok") =>
       /\ RecentBookingsView \notin {"loading", "error"}
       /\ {r.id : r \in dashboard.recentBookings} = BookingsSnapshot
       /\ \A r \in dashboard.recentBookings :
            /\ UnresolvedService(r.id) => r.serviceName = "Unknown Service"
            /\ stBookings[r.id].technicianId = NoTechId
                 => r.technicianName = "Unassigned"
            /\ stBookings[r.id].technicianId \notin Techs \cup {NoTechId}
                 => r.technicianName = "Unknown Technician"

\* the Dashboard has loaded a booking whose service and technician are both
\* unresolved, next to an unassigned one
LookupDefaultWitness ==
  /\ lastEvent = Event("fetchRecentBookings", "ok")
  /\ \E r \in dashboard.recentBookings :
       /\ UnresolvedService(r.id)
       /\ stBookings[r.id].technicianId = "t9"
  /\ \E r \in dashboard.recentBookings :
       stBookings[r.id].technicianId = NoTechId
  /\ \E r \in bookingsPage.bookings : UnresolvedService(r.id)

\* C14 - read faults surface as error state: after a failed list fetch the
\* page shows an inline error state, distinct from its empty state.
ReadFaultsSurface ==
  /\ lastEvent = Event("fetchServices", "fault") => ServicesPageView = "error"
  /\ lastEvent = Event("fetchBookings", "fault") => BookingsPageView = "error"
  /\ lastEvent = Event("fetchRecentBookings", "fault")
       => RecentBookingsView = "error"
  /\ lastEvent = Event("fetchTechnicians", "fault")
       => TechniciansPageView = "error"

\* C15 - authentication fault mapping: after a sign-in fault, each of
\* user-not-found, wrong-password, invalid-email, user-disabled and
\* too-many-requests shows a message of its own, which no other fault
\* yields; any other fault shows the fault's own message when it has one,
\* and the generic "Failed to sign in. Please try again." when it has none.
LoginFaultMapping ==
  lastEvent.op = "signInFault" =>
    LET f == loginPage.caught
    IN /\ f.code \in MappedAuthCodes =>
            /\ loginPage.error \notin {NoError, GenericLoginMessage, f.message}
            /\ \A g \in LoginFaults :
                 g.code # f.code => LoginErrorMessage(g) # loginPage.error
       /\ f.code \notin MappedAuthCodes =>
            loginPage.error =
              IF f.message # "" THEN f.message ELSE GenericLoginMessage

\* a sign-in fault with an unmapped code and a message has been caught
LoginFaultMappingWitness ==
  /\ lastEvent = Event("signInFault", "auth/network-request-failed")
  /\ loginPage.caught.message # ""
  /\ loginPage.error = loginPage.caught.message

\* C15 as stated: every sign-in fault whose code is not one of the five
\* yields the generic message.
UnmappedFaultIsGeneric ==
  (lastEvent.op = "signInFault" /\ loginPage.caught.code \notin MappedAuthCodes)
    => loginPage.error = GenericLoginMessage

\* C16 - status lifecycle: a step of the booking detail page issues an
\* assignment write, or changes the local status, only for a booking whose
\* status is pending.
PendingOnly ==
  [][ /\ writesIssued' # writesIssued => booking.status = "pending"
      /\ (booking # NoBooking /\ booking'.status # booking.status)
           => booking.status = "pending" \/ booking'.status = "pending" ]_vars

\* the two sides of the booking invariant
BookingInvariant(b) ==
  (b.technicianId # NoTechId) <=> (b.status \in {"assigned", "completed"})

\* C17 - booking invariant preserved: in every state reached through the
\* assignment workflow, the local booking copy and the stored booking
\* document both satisfy technicianId != null <=> status in {assigned,
\* completed}.
BookingInvariantPreserved ==
  /\ BookingInvariant(booking)
  /\ BookingInvariant(stBooking)

\* the write of an attempt is stored while the local copy has been rolled
\* back by the fault of the technician read
BookingInvariantWitness ==
  /\ lastEvent.op = "getDoc"
  /\ lastEvent.arg # "ok"
  /\ stBooking.status = "assigned"
  /\ stBooking.technicianId # NoTechId
  /\ booking.technicianId = NoTechId
  /\ booking.status = "pending"

\* C18 - active gates eligibility: every booking write issued by the
\* assignment workflow names a technician whose stored active flag is true
\* when the write is issued.
WriteNamesActiveTechnician ==
  [][ writesIssued' # writesIssued
        => stTech[selectedTechnicianId].active ]_vars

\* C20 - write frame: when the booking write of a confirmed assignment is
\* applied, the stored booking gets the selected technicianId and status
\* "assigned", its other fields are unchanged, and no other document
\* changes.
WriteFrame ==
  [][ \A c \in inFlight :
        ( /\ c.pc = "updateDoc"
          /\ c \notin inFlight'
          /\ lastEvent' = Event("updateDoc", "ok") )
        => /\ stBooking'.technicianId = c.selectedTechnicianId
           /\ stBooking'.status = "assigned"
           /\ stBooking'.customerName = stBooking.customerName
           /\ UNCHANGED <<stTech, stServiceExists, stServices, stBookings>> ]_vars

\* the write of a confirmed assignment has been applied to the stored
\* booking, which keeps its customer
WriteFrameWitness ==
  /\ lastEvent = Event("updateDoc", "ok")
  /\ stBooking.status = "assigned"
  /\ stBooking.technicianId = selectedTechnicianId
  /\ stBooking.customerName = "Asha"
  /\ inFlight # {}

\* C19 - bootstrap scripts exit non-zero on setup faults: once the creation
\* of the admin account has failed in a bootstrap script, the script has
\* exited, and its exit status is not zero.
CreationFaultExitsNonZero ==
  scriptRun.fault # "none" =>
    /\ scriptRun.pc = "exited"
    /\ scriptRun.exit = "1"

\* C21 - single-flight is always left: when every backend call eventually
\* resolves or rejects, every state with isAssigning true is followed by a
\* state with isAssigning false.
SingleFlightLeft == isAssigning ~> ~isAssigning

\* an attempt whose write was applied has ended in the catch block, by the
\* fault of the follow-up technician read, with isAssigning false
SingleFlightLeftWitness ==
  /\ lastEvent.op = "getDoc"
  /\ lastEvent.arg # "ok"
  /\ ~isAssigning
  /\ inFlight = {}
  /\ assignmentMessage.type = "error"

\* C22 - cross-session race is last-write-wins: whenever the booking write
\* of either session is applied, the stored technicianId becomes that
\* write's technician, whatever the other session has stored before.
LastWriteWins ==
  [][ /\ \A c \in inFlight :
           ( /\ c.pc = "updateDoc"
             /\ c \notin inFlight'
             /\ lastEvent' = Event("updateDoc", "ok") )
           => stBooking'.technicianId = c.selectedTechnicianId
      /\ lastEvent' = Event("peerWrite", "ok")
           => stBooking'.technicianId = peer.selectedTechnicianId ]_vars

\* both sessions loaded the booking unassigned, both writes were issued and
\* applied, the second session's last: the stored technician is the second
\* session's while the first session shows its own
LastWriteWinsWitness ==
  /\ lastEvent = Event("peerWrite", "ok")
  /\ peer.closure.technicianId = NoTechId
  /\ \E c \in inFlight : c.pc = "getDoc" /\ c.booking.technicianId = NoTechId
  /\ stBooking.technicianId = peer.selectedTechnicianId
  /\ booking.technicianId # NoTechId
  /\ booking.technicianId # stBooking.technicianId

\* C23 - teardown guard: once the page component is unmounted, no result of
\* an in-flight request and no pending timer changes its state.
TeardownGuard == [][~isMounted => UNCHANGED pageVars]_vars

\* C24 - message auto-clear is per message: a timer that clears a displayed
\* result message is the one scheduled when that message was set, that is
\* the timer of the latest attempt that has set a message; the timer of an
\* earlier attempt never clears the message of a later attempt.
AutoClearPerMessage ==
  [][ \A a \in timers :
        ( /\ a \notin timers'
          /\ assignmentMessage # NoMessage
          /\ assignmentMessage' = NoMessage )
        => \A b \in timers : b <= a ]_vars

\* C25 - the success message is presented: whenever assignmentMessage holds
\* a success message, the region that renders assignment messages (inside
\* the Assign Technician section) is displayed and the text carries the
\* name of the technician selected at confirmation.
SuccessMessagePresented ==
  assignmentMessage.type = "success"
    => /\ AssignSectionRendered
       /\ booking.technicianId \in Techs
       /\ assignmentMessage.text = TechName(booking.technicianId)

\* C26 - the guard tracks the latest notification: once every profile fetch
\* of the mounted layout has settled, the outcome that the last settled
\* fetch applied to isAuthorized, authChecked and loading is the outcome of
\* the latest notification, not of an earlier one: it authorized only an
\* admin's session and it refused only a session that is not an admin's.
GuardTracksLatest ==
  (isMounted /\ pending = {} /\ lastEvent.op = "roleCheck")
    => /\ lastEvent.arg = "admin"
            => ( /\ session # NoUser
                 /\ UserDocExists(session)
                 /\ UserRole(session) = "admin"
                 /\ isAuthorized /\ authChecked /\ ~layoutLoading )
       /\ lastEvent.arg = "denied"
            => ~( /\ session # NoUser
                  /\ UserDocExists(session)
                  /\ UserRole(session) = "admin" )

\* C27 - login leaves no unverified session: when handleSubmit has completed
\* after a successful sign-in without redirecting to /dashboard (the profile
\* document is missing, the role is not admin, or the profile fetch raised a
\* fault), nobody is signed in.
NoUnverifiedSession ==
  ( /\ loginPage.pc = "idle"
    /\ ~loginPage.pushed
    /\ lastEvent.op \in {"loginGetDocFault", "loginSignOut"} )
    => session = NoUser

\* C28 - service toggle rollback: when the write of an isActive toggle has
\* failed and handleToggleStatus has completed (its recovery refetch has
\* settled, successfully or not) with no other toggle pending, every
\* displayed service row shows the stored isActive.
ToggleRollback ==
  (lastEvent.op = "serviceRefetch" /\ svcCalls = {})
    => \A r \in servicesPage.services :
         r.isActive = stServices[r.id].isActive

\* C29 - bootstrap success implies a usable admin: when createNewAdmin,
\* resetAdminSimple or quickAdminSetup has created a new account, has gone
\* on to the users/{uid} write and has exited with status 0, the document
\* with role "admin" has been written.
BootstrapSuccessUsable ==
  ( /\ scriptRun.script \in
         {"createNewAdmin", "resetAdminSimple", "quickAdminSetup"}
    /\ lastEvent.op = "setDoc"
    /\ scriptRun.pc = "exited"
    /\ scriptRun.exit = "0" )
    => scriptRun.doc

\* C30 - service-name resolution agrees across screens: over the same
\* bookings and services collections, the row of a booking on BookingsPage
\* and its row on the Dashboard carry the same serviceName.
ServiceNameAgrees ==
  \A r \in bookingsPage.bookings, d \in dashboard.recentBookings :
    r.id = d.id => r.serviceName = d.serviceName

====
